---------------------------- MODULE Spec2Model ----------------------------
(***************************************************************************)
(* Ushio ballast emulator (attiny-ballast.c): the software UART of         *)
(* ushioLoop -- receive framer, transmit framer, transmit scheduling and   *)
(* protocol matcher -- driven by the timer-1 compare interrupt, together   *)
(* with the projector on the receive line.                                 *)
(***************************************************************************)
EXTENDS Integers, Sequences, FiniteSets, TLC

(***************************************************************************)
(* Program constants                                                       *)
(***************************************************************************)
UART_RX_TIMEOUT == 480
USHIO_QUERIES == 5
UARTRXMASK == 15
UARTTXMASK == 15
BUFFER_LENGTH == 16
TICKS_PER_BIT == 4

(***************************************************************************)
(* Bounds of the model                                                     *)
(***************************************************************************)
\* commands the projector sends in a run of separate commands
MaxCmds == 2
\* commands the projector sends in a back-to-back burst
MaxBurst == 5
\* commands the projector sends over a noisy line
MaxNoisy == 1
\* timer firings that may pile up before the loop consumes the flag
MaxPending == 2
\* idle ticks of a long pause of the projector (longer than the timeout)
LongGap == 481

(***************************************************************************)
(* 8-bit arithmetic of the C code                                          *)
(***************************************************************************)
\* x & m # 0 for a single-bit mask m (m = 0 after the shift overflowed)
TestBit(x, m) == IF m = 0 THEN FALSE ELSE (x \div m) % 2 = 1
\* x |= m for a single-bit mask m
OrBit(x, m) == IF TestBit(x, m) THEN x ELSE x + m
\* x &= ~m for a single-bit mask m
ClearBit(x, m) == IF TestBit(x, m) THEN x - m ELSE x
\* (uint8_t)(x << 1)
Shl8(x) == (2 * x) % 256

(***************************************************************************)
(* ushioQuery: the command table.  qData and rData are char[5] arrays,     *)
(* zero padded; element j of the C array is element j+1 of the tuple.      *)
(***************************************************************************)
ushioQuery ==
  << [qLength |-> 2, qData |-> <<81, 13, 0, 0, 0>>,  rLength |-> 3, rData |-> <<81, 50, 13, 0, 0>>],
     [qLength |-> 3, qData |-> <<76, 70, 13, 0, 0>>, rLength |-> 2, rData |-> <<65, 13, 0, 0, 0>>],
     [qLength |-> 2, qData |-> <<80, 13, 0, 0, 0>>,  rLength |-> 3, rData |-> <<80, 70, 13, 0, 0>>],
     [qLength |-> 2, qData |-> <<81, 13, 0, 0, 0>>,  rLength |-> 3, rData |-> <<81, 50, 13, 0, 0>>],
     [qLength |-> 3, qData |-> <<76, 69, 13, 0, 0>>, rLength |-> 2, rData |-> <<65, 13, 0, 0, 0>> ] >>

\* uartTxBuffer[16] = {0x51, 0x32, 0x0D, 0x00, 0x00}
InitTxBuffer == [k \in 0 .. 15 |-> CASE k = 0 -> 81 [] k = 1 -> 50 [] k = 2 -> 13 [] OTHER -> 0]
\* uartRxBuffer[16] = {0}
InitRxBuffer == [k \in 0 .. 15 |-> 0]

(***************************************************************************)
(* The wire format: start bit low, 8 data bits LSB first, even parity,     *)
(* stop bit high, TICKS_PER_BIT ticks per bit.                             *)
(***************************************************************************)
DataBit(b, k) == (b \div (2 ^ k)) % 2
ParityOf(b) == (DataBit(b, 0) + DataBit(b, 1) + DataBit(b, 2) + DataBit(b, 3)
                + DataBit(b, 4) + DataBit(b, 5) + DataBit(b, 6) + DataBit(b, 7)) % 2
\* level of phase p (0 .. 10) of the frame of byte b
WirePhase(b, p) == IF p = 0 THEN 0
                   ELSE IF p <= 8 THEN DataBit(b, p - 1)
                   ELSE IF p = 9 THEN ParityOf(b)
                   ELSE 1
FRAME_TICKS == 11 * TICKS_PER_BIT
\* the frame of byte b as the line levels of its 44 ticks
WireFrame(b) == [t \in 1 .. FRAME_TICKS |-> WirePhase(b, (t - 1) \div TICKS_PER_BIT)]


(***************************************************************************)
(* State.  The program variables keep their names; txPin is the TXPIN bit  *)
(* of PORTB.  host is the projector on the receive line.  The remaining    *)
(* variables observe the run: the bytes committed and serialized, the      *)
(* frame seen on the output pin, and what the matcher saw in this tick.    *)
(***************************************************************************)
VARIABLES timerTriggered,
          rxLastBit, rxBit, uartRxState, rxParity, rxTick, readBit,
          txBit, uartTxState, txParity, txTick, writeBit, rxTimeout,
          uartRxBuffer, uartRxWrite, uartRxRead,
          uartTxBuffer, uartTxWrite, uartTxRead,
          txPin,
          host,
          rxLog, txLog, busLog, txFrame, txFrames,
          mRx, mTxW0, txAppended, first, appLog, mPre,
          fires, coalesced

progVars == <<timerTriggered, rxLastBit, rxBit, uartRxState, rxParity, rxTick, readBit,
              txBit, uartTxState, txParity, txTick, writeBit, rxTimeout,
              uartRxBuffer, uartRxWrite, uartRxRead,
              uartTxBuffer, uartTxWrite, uartTxRead, txPin>>
obsVars == <<rxLog, txLog, busLog, txFrame, txFrames, mRx, mTxW0, txAppended, first,
             appLog, mPre>>
\* timer firings since the last pass of the loop, and whether a pass ever
\* consumed more than one
irqVars == <<fires, coalesced>>
vars == <<progVars, host, obsVars, irqVars>>

\* the locals and globals of ushioLoop as one record
Cur == [rxLastBit |-> rxLastBit, rxBit |-> rxBit, uartRxState |-> uartRxState,
        rxParity |-> rxParity, rxTick |-> rxTick, readBit |-> readBit,
        txBit |-> txBit, uartTxState |-> uartTxState, txParity |-> txParity,
        txTick |-> txTick, writeBit |-> writeBit, rxTimeout |-> rxTimeout,
        uartRxBuffer |-> uartRxBuffer, uartRxWrite |-> uartRxWrite,
        uartRxRead |-> uartRxRead, uartTxBuffer |-> uartTxBuffer,
        uartTxWrite |-> uartTxWrite, uartTxRead |-> uartTxRead, txPin |-> txPin]

(***************************************************************************)
(* One pass of the while(1) body of ushioLoop, stage by stage              *)
(***************************************************************************)
\* lines 139-154: sample RXD, drive TXD with the scheduled level
Sample(s, in) == [s EXCEPT !.rxLastBit = s.rxBit, !.rxBit = in, !.txPin = s.txBit]

\* lines 156-159
Timers(s) == [s EXCEPT !.rxTick = IF s.rxTick # 0 THEN s.rxTick - 1 ELSE 0,
                       !.txTick = IF s.txTick # 0 THEN s.txTick - 1 ELSE 0,
                       !.rxTimeout = IF s.rxTimeout # 0 THEN s.rxTimeout - 1 ELSE 0]

\* (mutant: the start bit is not checked a tick after the edge)
RxStartUnconfirmed(s) ==
  [s EXCEPT !.rxParity = 0, !.readBit = 1, !.uartRxState = "DATA",
            !.uartRxBuffer[s.uartRxWrite] = 0, !.rxTick = TICKS_PER_BIT,
            !.rxTimeout = IF s.rxTimeout = 0 THEN UART_RX_TIMEOUT
                          ELSE s.rxTimeout]

\* (mutant: the first data bit is sampled two ticks after the confirmation)
RxStartEarlySample(s) ==
  IF s.rxBit = 0
    THEN [s EXCEPT !.rxParity = 0, !.readBit = 1, !.uartRxState = "DATA",
                   !.uartRxBuffer[s.uartRxWrite] = 0, !.rxTick = TICKS_PER_BIT - 2,
                   !.rxTimeout = IF s.rxTimeout = 0 THEN UART_RX_TIMEOUT
                                 ELSE s.rxTimeout]
    ELSE [s EXCEPT !.uartRxState = "IDLE", !.rxTick = 0]

\* lines 170-184: a falling edge was seen one tick ago
RxStart(s) ==
  IF s.rxBit = 0
    THEN [s EXCEPT !.rxParity = 0, !.readBit = 1, !.uartRxState = "DATA",
                   !.uartRxBuffer[s.uartRxWrite] = 0, !.rxTick = TICKS_PER_BIT,
                   !.rxTimeout = IF s.rxTimeout = 0 THEN UART_RX_TIMEOUT
                                 ELSE s.rxTimeout]
    ELSE [s EXCEPT !.uartRxState = "IDLE", !.rxTick = 0]

\* lines 186-199: a data bit
RxData(s) ==
  LET byte == IF s.rxBit # 0
                THEN OrBit(s.uartRxBuffer[s.uartRxWrite], s.readBit)
                ELSE s.uartRxBuffer[s.uartRxWrite]
      par == IF s.rxBit # 0 THEN 1 - s.rxParity ELSE s.rxParity
      nextBit == Shl8(s.readBit)
  IN  [s EXCEPT !.uartRxBuffer[s.uartRxWrite] = byte,
                !.rxParity = par,
                !.readBit = nextBit,
                !.uartRxState = IF nextBit = 0 THEN "PARITY" ELSE "DATA",
                !.uartRxWrite = IF nextBit = 0
                                  THEN (s.uartRxWrite + 1) % (UARTRXMASK + 1)
                                  ELSE s.uartRxWrite,
                !.rxTick = TICKS_PER_BIT]

\* (mutant: a byte whose parity bit is wrong is taken out of the queue again)
RxParityReject(s) ==
  [s EXCEPT !.uartRxState = "STOP", !.rxTick = TICKS_PER_BIT,
            !.uartRxWrite = IF s.rxBit # s.rxParity
                              THEN (s.uartRxWrite + UARTRXMASK) % (UARTRXMASK + 1)
                              ELSE s.uartRxWrite]

\* lines 201-204: the parity bit; a mismatch is not acted on
RxParity(s) == [s EXCEPT !.uartRxState = "STOP", !.rxTick = TICKS_PER_BIT]

\* lines 206-209: the stop bit (and IDLE without a falling edge)
RxStop(s) == [s EXCEPT !.uartRxState = "IDLE", !.rxTick = 0]

\* lines 161-211
RxFramer(s) ==
  IF s.rxTick # 0 THEN s
  ELSE IF s.uartRxState = "IDLE" /\ s.rxBit = 0 /\ s.rxLastBit = 1
    THEN [s EXCEPT !.uartRxState = "START", !.rxTick = 1]
  ELSE IF s.uartRxState = "START" THEN RxStart(s)
  ELSE IF s.uartRxState = "DATA" THEN RxData(s)
  ELSE IF s.uartRxState = "PARITY" THEN RxParity(s)
  ELSE RxStop(s)

\* (mutant: the parity accumulator is not reset)
TxStartKeepParity(s) ==
  [s EXCEPT !.txBit = 0, !.writeBit = 1, !.uartTxState = "DATA"]

\* lines 217-221: the start bit
TxStart(s) ==
  [s EXCEPT !.txBit = 0, !.writeBit = 1, !.txParity = 0, !.uartTxState = "DATA"]

\* lines 222-235: a data bit
TxData(s) ==
  LET one == TestBit(s.uartTxBuffer[s.uartTxRead], s.writeBit)
      nextBit == Shl8(s.writeBit)
  IN  [s EXCEPT !.txBit = IF one THEN 1 ELSE 0,
                !.txParity = IF one THEN 1 - s.txParity ELSE s.txParity,
                !.writeBit = nextBit,
                !.uartTxState = IF nextBit = 0 THEN "PARITY" ELSE "DATA",
                !.uartTxRead = IF nextBit = 0
                                 THEN (s.uartTxRead + 1) % (UARTTXMASK + 1)
                                 ELSE s.uartTxRead]

\* (mutant: the framer goes back to IDLE without a stop bit)
TxParityNoStop(s) == [s EXCEPT !.txBit = s.txParity, !.uartTxState = "IDLE"]

\* lines 236-239: the parity bit
TxParity(s) == [s EXCEPT !.txBit = s.txParity, !.uartTxState = "STOP"]

\* lines 240-244: the stop bit (and IDLE)
TxStop(s) == [s EXCEPT !.txBit = 1, !.uartTxState = "IDLE"]

\* lines 213-245
TxFramer(s) ==
  IF s.txTick # 0 THEN s
  ELSE LET t == [s EXCEPT !.txTick = TICKS_PER_BIT]
       IN  IF s.uartTxState = "START" THEN TxStart(t)
           ELSE IF s.uartTxState = "DATA" THEN TxData(t)
           ELSE IF s.uartTxState = "PARITY" THEN TxParity(t)
           ELSE TxStop(t)

\* (mutant: a drained queue is left with its cursors where they are)
TxScheduleNoReset(s) ==
  IF s.uartTxState # "IDLE" THEN s
  ELSE IF s.uartTxRead < s.uartTxWrite
    THEN [s EXCEPT !.uartTxState = "START"]
    ELSE s

\* (mutant: a transmission is started although nothing is unread)
TxScheduleWhenEmpty(s) ==
  IF s.uartTxState # "IDLE" THEN s
  ELSE IF s.uartTxRead <= s.uartTxWrite
    THEN [s EXCEPT !.uartTxState = "START"]
    ELSE [s EXCEPT !.uartTxRead = 0, !.uartTxWrite = 0]

\* lines 247-257
TxSchedule(s) ==
  IF s.uartTxState # "IDLE" THEN s
  ELSE IF s.uartTxRead < s.uartTxWrite
    THEN [s EXCEPT !.uartTxState = "START"]
    ELSE [s EXCEPT !.uartTxRead = 0, !.uartTxWrite = 0]

\* (mutant: only the first byte of the entry is compared)
QueryMismatchFirstByte(s, q) == s.uartRxBuffer[0] # q.qData[1]

\* lines 269-274: some byte of entry q differs from the buffered bytes
QueryMismatch(s, q) == \E j \in 0 .. q.qLength - 1 : s.uartRxBuffer[j] # q.qData[j + 1]

\* (mutant: the check lets the reply end at the last cell but one)
TxHasSpaceOffByOne(s, q) == UARTTXMASK >= s.uartTxWrite + q.rLength

\* line 280
TxHasSpace(s, q) == UARTTXMASK > s.uartTxWrite + q.rLength

\* lines 281-284: uartTxBuffer[uartTxWrite++] = rData[j], j = 0 .. rLength-1
AppendReply(s, q) ==
  [s EXCEPT !.uartTxBuffer = [k \in 0 .. BUFFER_LENGTH - 1 |->
                                IF s.uartTxWrite <= k /\ k < s.uartTxWrite + q.rLength
                                  THEN q.rData[k - s.uartTxWrite + 1]
                                  ELSE s.uartTxBuffer[k]],
            !.uartTxWrite = s.uartTxWrite + q.rLength]

\* (mutant: the loop goes on after a match instead of breaking out)
RECURSIVE QueryLoopNoBreak(_, _, _)
QueryLoopNoBreak(s, i, failed) ==
  IF i >= USHIO_QUERIES THEN [s |-> s, failed |-> failed]
  ELSE LET q == ushioQuery[i + 1]
           f0 == ClearBit(failed, 1)
       IN  IF s.uartRxWrite >= q.qLength
             THEN IF QueryMismatch(s, q)
                    THEN QueryLoopNoBreak(s, i + 1, OrBit(f0, 1))
                    ELSE QueryLoopNoBreak(IF TxHasSpace(s, q) THEN AppendReply(s, q) ELSE s,
                                          i + 1, 0)
             ELSE QueryLoopNoBreak(s, i + 1, OrBit(f0, 2))

\* lines 265-297: the for loop from entry i (0-based) on; the result carries failed
RECURSIVE QueryLoop(_, _, _)
QueryLoop(s, i, failed) ==
  IF i >= USHIO_QUERIES THEN [s |-> s, failed |-> failed]
  ELSE LET q == ushioQuery[i + 1]
           f0 == ClearBit(failed, 1)
       IN  IF s.uartRxWrite >= q.qLength
             THEN IF QueryMismatch(s, q)
                    THEN QueryLoop(s, i + 1, OrBit(f0, 1))
                    ELSE [s |-> IF TxHasSpace(s, q) THEN AppendReply(s, q) ELSE s,
                          failed |-> 0]
             ELSE QueryLoop(s, i + 1, OrBit(f0, 2))

\* (mutant: the queue is kept although no entry is longer than what is buffered)
ClearRxNoDefinitive(s, failed) == failed = 0 \/ s.rxTimeout = 0

\* (mutant: an expired timeout does not clear the queue)
ClearRxNoTimeout(s, failed) == failed = 0 \/ ~TestBit(failed, 2)

\* line 302
ClearRx(s, failed) == failed = 0 \/ ~TestBit(failed, 2) \/ s.rxTimeout = 0

\* lines 259-307
Matcher(s) ==
  IF s.uartRxState = "IDLE" /\ s.uartRxWrite > 0
    THEN LET r == QueryLoop(s, 0, 0)
         IN  IF ClearRx(r.s, r.failed)
               THEN [r.s EXCEPT !.uartRxWrite = 0, !.uartRxRead = 0, !.rxTimeout = 0]
               ELSE r.s
    ELSE s

(***************************************************************************)
(* The projector.  It sends commands as frames of the wire format, byte    *)
(* after byte, and decides at the end of a command what it does next.      *)
(*   mode "free":  up to MaxCmds commands, back to back or after a pause   *)
(*   mode "burst": up to MaxBurst polls back to back                       *)
(*   mode "loop":  as "free" with pauses, and the TX pin is wired to the   *)
(*                 RX pin (a wired-AND bus that idles high)                *)
(*   mode "noisy": up to MaxNoisy commands, each in one of NoisyShapes: a  *)
(*                 glitch before it, wrong parity bits, low stop bits,     *)
(*                 or a pause between its bytes that ends as the idle      *)
(*                 timeout expires; the line may also stick low            *)
(***************************************************************************)
ListedCmds == { <<81, 13>>, <<76, 70, 13>>, <<80, 13>>, <<76, 69, 13>> }
FreeCmds == ListedCmds \cup { <<76>>, <<80, 70, 13>> }
BurstCmds == { <<81, 13>>, <<80, 13>> }

HostCmds(h) == IF h.mode = "burst" THEN BurstCmds ELSE FreeCmds
HostGaps(h) == CASE h.mode = "burst" -> IF h.sent = 0 THEN {1, 2} ELSE {0}
                 [] h.mode = "loop" -> {LongGap}
                 [] OTHER -> {0, LongGap}
HostLimit(h) == IF h.mode = "burst" THEN MaxBurst ELSE MaxCmds

NoisyCmds == { <<81>>, <<81, 13>> }
NoisyShapes == {"ok", "glitch", "badParity", "badStopLast", "badStopAll",
                "slowEarly", "slow", "slowLate"}
\* the pause after a frame with which the next start bit is confirmed in the
\* tick in which the timeout armed by the frame runs out
EdgeGap == UART_RX_TIMEOUT - FRAME_TICKS
\* the levels driven before the first frame of a command of shape v
ShapePre(v) == IF v = "glitch" THEN <<0, 1>> ELSE <<>>
ShapeLowStop(v) == CASE v = "badStopLast" -> "last"
                     [] v = "badStopAll" -> "all"
                     [] OTHER -> "none"
ShapeGapIn(v) == CASE v = "slowEarly" -> EdgeGap - 1
                   [] v = "slow" -> EdgeGap
                   [] v = "slowLate" -> EdgeGap + 1
                   [] OTHER -> 0

\* the level of the current tick of the frame the projector is sending
FrameLevel(h) ==
  LET b == Head(h.bytes)
      p == h.pos \div TICKS_PER_BIT
  IN  IF p = 9 THEN (ParityOf(b) + (IF h.flipPar THEN 1 ELSE 0)) % 2
      ELSE IF p = 10 /\ (h.lowStop = "all" \/ (h.lowStop = "last" /\ Len(h.bytes) = 1))
        THEN 0
      ELSE WirePhase(b, p)
\* the level the projector drives in this tick
HostLevel(h) == IF h.stuck THEN 0
                ELSE IF h.idle > 0 THEN 1
                ELSE IF h.pre # <<>> THEN Head(h.pre)
                ELSE IF h.bytes = <<>> THEN 1
                ELSE FrameLevel(h)
\* the projector starts a frame in this tick
HostStarts(h) == ~h.stuck /\ h.idle = 0 /\ h.pre = <<>> /\ h.bytes # <<>> /\ h.pos = 0
\* one tick later; last is the level of this tick, lostEdge records a frame
\* whose start bit follows a low level (no falling edge marks its start)
HostAdvance(h) ==
  LET h1 == [h EXCEPT !.last = HostLevel(h),
                      !.lostEdge = h.lostEdge \/ (HostStarts(h) /\ h.last = 0)]
  IN  IF h.stuck THEN h1
      ELSE IF h.idle > 0 THEN [h1 EXCEPT !.idle = h.idle - 1]
      ELSE IF h.pre # <<>> THEN [h1 EXCEPT !.pre = Tail(h.pre)]
      ELSE IF h.bytes = <<>> THEN h1
      ELSE IF h.pos < FRAME_TICKS - 1 THEN [h1 EXCEPT !.pos = h.pos + 1]
      ELSE [h1 EXCEPT !.bytes = Tail(h.bytes), !.pos = 0,
                      !.idle = IF Tail(h.bytes) # <<>> THEN h.gapIn ELSE 0,
                      !.deciding = (Tail(h.bytes) = <<>>)]

\* PINB & RXPIN: the receive pin
PinLevel(h, pin) == IF h.mode = "loop" /\ pin = 0 THEN 0 ELSE HostLevel(h)

(***************************************************************************)
(* Initial state: the initialisers of the globals and of ushioLoop's       *)
(* locals; main leaves the TXPIN bit of PORTB 0.                           *)
(***************************************************************************)
InitProg ==
  /\ timerTriggered = 0
  /\ rxLastBit = 0 /\ rxBit = 0 /\ uartRxState = "IDLE" /\ rxParity = 0
  /\ rxTick = 0 /\ readBit = 1
  /\ txBit = 1 /\ uartTxState = "IDLE" /\ txParity = 0 /\ txTick = 0 /\ writeBit = 1
  /\ rxTimeout = 0
  /\ uartRxBuffer = InitRxBuffer /\ uartRxWrite = 0 /\ uartRxRead = 0
  /\ uartTxBuffer = InitTxBuffer /\ uartTxWrite = 0 /\ uartTxRead = 0
  /\ txPin = 0

InitObs ==
  /\ rxLog = <<>> /\ txLog = <<>> /\ busLog = <<>>
  /\ txFrame = <<>> /\ txFrames = 0
  /\ mRx = <<>> /\ mTxW0 = 0 /\ txAppended = 0
  /\ appLog = <<>>
  /\ mPre = [rxWrite |-> 0, rxRead |-> 0, rxTimeout |-> 0, txSame |-> TRUE]
  /\ fires = 0 /\ coalesced = FALSE
  /\ first = [age |-> UART_RX_TIMEOUT + 1, rxAt |-> 0, appAt |-> 0]

InitHost(modes) ==
  \E m \in modes : host = [mode |-> m, bytes |-> <<>>, pos |-> 0, idle |-> 0,
                           sent |-> 0, deciding |-> TRUE,
                           shape |-> "ok", pre |-> <<>>, flipPar |-> FALSE,
                           lowStop |-> "none", gapIn |-> 0, stuck |-> FALSE,
                           last |-> 0, lostEdge |-> FALSE]

Init == InitProg /\ InitObs /\ InitHost({"free", "burst"})
InitLoop == InitProg /\ InitObs /\ InitHost({"loop"})
InitNoisy == InitProg /\ InitObs /\ InitHost({"noisy"})
InitBurst == InitProg /\ InitObs /\ InitHost({"burst"})

(***************************************************************************)
(* Actions                                                                 *)
(***************************************************************************)
\* the body of ISR(TIMER1_COMPA_vect)
TimerFires ==
  /\ timerTriggered' = 1
  /\ fires' = fires + 1
  /\ UNCHANGED <<rxLastBit, rxBit, uartRxState, rxParity, rxTick, readBit,
                 txBit, uartTxState, txParity, txTick, writeBit, rxTimeout,
                 uartRxBuffer, uartRxWrite, uartRxRead,
                 uartTxBuffer, uartTxWrite, uartTxRead, txPin, host, obsVars,
                 coalesced>>

\* ISR(TIMER1_COMPA_vect) while the loop keeps up with the timer
TimerISR ==
  /\ ~host.deciding
  /\ timerTriggered = 0
  /\ TimerFires

\* ISR(TIMER1_COMPA_vect) before the loop has consumed the previous firing;
\* the receive line is modelled by the levels the loop samples, so it does
\* not move on with a firing the loop does not see
TimerOverrun ==
  /\ ~host.deciding
  /\ timerTriggered # 0
  /\ fires < MaxPending
  /\ TimerFires

\* the projector sends command c after g idle ticks
HostSend(c, g) ==
  /\ host.deciding
  /\ host.sent < HostLimit(host)
  /\ host' = [host EXCEPT !.bytes = c, !.pos = 0, !.idle = g,
                          !.sent = host.sent + 1, !.deciding = FALSE]
  /\ UNCHANGED <<progVars, obsVars, irqVars>>

\* the projector sends command c in shape v; the line is high for a tick first
HostSendNoisy(c, v) ==
  /\ host.deciding
  /\ host.mode = "noisy"
  /\ host.sent < MaxNoisy
  /\ host' = [host EXCEPT !.bytes = c, !.pos = 0,
                          !.idle = IF host.sent = 0 THEN 1 ELSE 0,
                          !.sent = host.sent + 1, !.deciding = FALSE,
                          !.shape = v, !.pre = ShapePre(v),
                          !.flipPar = (v = "badParity"),
                          !.lowStop = ShapeLowStop(v), !.gapIn = ShapeGapIn(v)]
  /\ UNCHANGED <<progVars, obsVars, irqVars>>

\* the projector falls silent
HostQuiet ==
  /\ host.deciding
  /\ host' = [host EXCEPT !.deciding = FALSE]
  /\ UNCHANGED <<progVars, obsVars, irqVars>>

\* the receive line sticks low
HostStuck ==
  /\ host.deciding
  /\ host.mode = "noisy"
  /\ host' = [host EXCEPT !.deciding = FALSE, !.stuck = TRUE]
  /\ UNCHANGED <<progVars, obsVars, irqVars>>

\* (mutant: the flag is left set)
WaitTimerNoClear == timerTriggered # 0 /\ timerTriggered' = timerTriggered

\* while(!timerTriggered); timerTriggered = 0;
WaitTimer == timerTriggered # 0 /\ timerTriggered' = 0

\* the bytes the matcher looks at: uartRxBuffer[0 .. uartRxWrite-1]
RxContents(s) == [j \in 1 .. s.uartRxWrite |-> s.uartRxBuffer[j - 1]]

\* the frame observed on the output pin: it starts with a falling edge and
\* lasts FRAME_TICKS ticks
ObserveFrame(frame, pin) ==
  IF Len(frame) >= 1 /\ Len(frame) < FRAME_TICKS THEN Append(frame, pin)
  ELSE IF pin = 0 THEN <<0>> ELSE <<>>

\* one pass of the loop body: while(!timerTriggered); timerTriggered = 0; ...
LoopStep ==
  /\ ~host.deciding
  /\ WaitTimer
  /\ \E s1 \in {Sample(Cur, PinLevel(host, txPin))} :
     \E s2 \in {Timers(s1)} :
     \E s3 \in {RxFramer(s2)} :
     \E s4 \in {TxFramer(s3)} :
     \E s5 \in {TxSchedule(s4)} :
     \E s6 \in {Matcher(s5)} :
     LET committed == s2.uartRxState = "DATA" /\ s3.uartRxState = "PARITY"
         serialized == s3.uartTxState = "DATA" /\ s4.uartTxState = "PARITY"
         confirmed == s2.uartRxState = "START" /\ s3.uartRxState = "DATA"
         ran == s5.uartRxState = "IDLE" /\ s5.uartRxWrite > 0
         frame == ObserveFrame(txFrame, s1.txPin)
         rxl == IF committed THEN Append(rxLog, s3.uartRxBuffer[s2.uartRxWrite]) ELSE rxLog
         app == txAppended + (s6.uartTxWrite - s5.uartTxWrite)
         bus0 == IF HostStarts(host) THEN Append(busLog, Head(host.bytes)) ELSE busLog
     IN  /\ rxLastBit' = s6.rxLastBit /\ rxBit' = s6.rxBit
         /\ uartRxState' = s6.uartRxState /\ rxParity' = s6.rxParity
         /\ rxTick' = s6.rxTick /\ readBit' = s6.readBit
         /\ txBit' = s6.txBit /\ uartTxState' = s6.uartTxState
         /\ txParity' = s6.txParity /\ txTick' = s6.txTick /\ writeBit' = s6.writeBit
         /\ rxTimeout' = s6.rxTimeout
         /\ uartRxBuffer' = s6.uartRxBuffer /\ uartRxWrite' = s6.uartRxWrite
         /\ uartRxRead' = s6.uartRxRead
         /\ uartTxBuffer' = s6.uartTxBuffer /\ uartTxWrite' = s6.uartTxWrite
         /\ uartTxRead' = s6.uartTxRead
         /\ txPin' = s6.txPin
         /\ host' = HostAdvance(host)
         /\ rxLog' = rxl
         /\ txLog' = IF serialized THEN Append(txLog, s3.uartTxBuffer[s3.uartTxRead])
                     ELSE txLog
         /\ busLog' = IF host.mode \notin {"loop", "noisy"} THEN busLog
                      ELSE IF serialized /\ host.mode = "loop"
                        THEN Append(bus0, s3.uartTxBuffer[s3.uartTxRead])
                      ELSE bus0
         /\ txFrame' = frame
         /\ txFrames' = IF Len(frame) = FRAME_TICKS THEN txFrames + 1 ELSE txFrames
         /\ mRx' = IF ran THEN RxContents(s5) ELSE <<>>
         /\ mTxW0' = s5.uartTxWrite
         /\ txAppended' = app
         /\ appLog' = appLog \o [j \in 1 .. s6.uartTxWrite - s5.uartTxWrite |->
                                   s6.uartTxBuffer[s5.uartTxWrite + j - 1]]
         /\ mPre' = [rxWrite |-> s5.uartRxWrite, rxRead |-> s5.uartRxRead,
                     rxTimeout |-> s5.rxTimeout,
                     txSame |-> (s6.uartTxBuffer = s5.uartTxBuffer)]
         /\ fires' = 0
         /\ coalesced' = (coalesced \/ fires > 1)
         /\ first' = IF confirmed /\ s2.uartRxWrite = 0
                       THEN [age |-> 0, rxAt |-> Len(rxLog), appAt |-> txAppended]
                     ELSE IF first.age <= UART_RX_TIMEOUT
                       THEN [first EXCEPT !.age = first.age + 1]
                     ELSE first

Next ==
  \/ TimerISR
  \/ \E c \in HostCmds(host), g \in HostGaps(host) : HostSend(c, g)
  \/ HostQuiet
  \/ LoopStep

\* the projector of mode "noisy"
NextNoisy ==
  \/ TimerISR
  \/ \E c \in NoisyCmds, v \in NoisyShapes : HostSendNoisy(c, v)
  \/ HostQuiet
  \/ HostStuck
  \/ LoopStep

\* the timer may fire again before the loop has consumed the flag
NextIrq == Next \/ TimerOverrun

Spec == Init /\ [][Next]_vars
SpecLoop == InitLoop /\ [][Next]_vars
SpecNoisy == InitNoisy /\ [][NextNoisy]_vars
SpecIrq == InitBurst /\ [][NextIrq]_vars
\* the loop consumes the tick flag: the step that clears it is a pass of the
\* loop, which is enabled whenever the flag is set and the projector has
\* decided
LoopRuns == ~host.deciding /\ WaitTimer
\* the timer keeps firing, the loop keeps running, and the projector does not
\* wait for ever before it sends or falls silent
Fair == WF_vars(TimerISR) /\ WF_timerTriggered(LoopRuns) /\ WF_vars(HostQuiet)
SpecFair == InitBurst /\ [][Next]_vars /\ Fair
SpecNoisyFair == SpecNoisy /\ Fair

(***************************************************************************)
(* Properties                                                              *)
(***************************************************************************)
\* the reply the command table of the interface lists for a command
ListedReply(c) == CASE c = <<81, 13>> -> <<81, 50, 13>>
                    [] c = <<76, 70, 13>> -> <<65, 13>>
                    [] c = <<80, 13>> -> <<80, 70, 13>>
                    [] c = <<76, 69, 13>> -> <<65, 13>>

\* the table entries (1-based) whose full prefix starts the bytes rx
Matches(rx) == {i \in 1 .. USHIO_QUERIES :
                  /\ Len(rx) >= ushioQuery[i].qLength
                  /\ \A j \in 1 .. ushioQuery[i].qLength : rx[j] = ushioQuery[i].qData[j]}
FirstMatch(rx) == CHOOSE i \in Matches(rx) : \A k \in Matches(rx) : i <= k

\* in this tick the matcher appended exactly the bytes r to the Transmit Queue
AppendedNow(r) == /\ uartTxWrite = mTxW0 + Len(r)
                  /\ \A k \in 1 .. Len(r) : uartTxBuffer[mTxW0 + k - 1] = r[k]
\* in this tick the matcher appended nothing
NothingAppendedNow == uartTxWrite = mTxW0
\* the Receive Queue is empty
RxEmpty == uartRxWrite = 0 /\ uartRxRead = 0
\* the unread bytes of the Transmit Queue
TxUnread == [k \in 1 .. (uartTxWrite - uartTxRead) |-> uartTxBuffer[uartTxRead + k - 1]]

C2_PowerOnPreload ==
  (rxLog = <<>> /\ txLog = <<>> /\ txAppended = 0 /\ uartTxState = "IDLE") =>
     TxUnread = <<81, 50, 13>>

\* C3: when more than one table entry matches the buffered bytes, at most one
\* reply is appended in the tick, and it is the reply of the earliest entry.
C3_FirstMatchWins ==
  Cardinality(Matches(mRx)) >= 2 =>
    LET q == ushioQuery[FirstMatch(mRx)]
    IN  \/ AppendedNow(SubSeq(q.rData, 1, q.rLength))
        \/ NothingAppendedNow

\* C3 witness: 51 0D matched entries 0 and 3 and one reply was appended
C3_Witness ==
  /\ Matches(mRx) = {1, 4}
  /\ AppendedNow(<<81, 50, 13>>)

IsPrefix(a, b) == Len(a) <= Len(b) /\ \A k \in 1 .. Len(a) : a[k] = b[k]

C5_Frame ==
  /\ Len(txFrame) = FRAME_TICKS =>
       /\ txLog # <<>>
       /\ txFrames = Len(txLog)
       /\ \A t \in 1 .. FRAME_TICKS : txFrame[t] = WireFrame(txLog[Len(txLog)])[t]
  /\ uartTxState \in {"IDLE", "START"} => txBit = 1

\* C5 witness: the frame of the third byte of a reply, 0D, is complete on the pin
C5_Witness ==
  /\ Len(txFrame) = FRAME_TICKS
  /\ txLog = <<81, 50, 13>>
  /\ txFrames = 3

\* C6: the parity bit driven after the data bits of byte v is the XOR of the
\* bits of v, whatever byte was sent before: the 1-bits of data plus parity
\* are even in number.
C6_Parity ==
  /\ uartTxState = "STOP" => txBit = ParityOf(txLog[Len(txLog)])
  /\ Len(txFrame) = FRAME_TICKS =>
       LET ones == txFrame[5] + txFrame[9] + txFrame[13] + txFrame[17] + txFrame[21]
                   + txFrame[25] + txFrame[29] + txFrame[33] + txFrame[37]
       IN  ones % 2 = 0

\* C6 witness: the parity bit of a byte of even weight (41) is driven right
\* after a byte of odd weight
C6_Witness ==
  /\ uartTxState = "STOP"
  /\ Len(txLog) >= 2
  /\ ParityOf(txLog[Len(txLog)]) = 0
  /\ ParityOf(txLog[Len(txLog) - 1]) = 1

\* C7: when UART_RX_TIMEOUT ticks have passed since the start bit of the first
\* byte of the queue was confirmed, only that byte was committed since and the
\* Receive Framer is idle, the Receive Queue is empty, the timeout disarmed,
\* and nothing was appended to the Transmit Queue in the meantime.
C7_IdleTimeout ==
  (/\ first.age = UART_RX_TIMEOUT
   /\ Len(rxLog) = first.rxAt + 1
   /\ uartRxState = "IDLE") =>
     /\ RxEmpty
     /\ rxTimeout = 0
     /\ txAppended = first.appAt

\* C7 witness: the single byte 4C was still queued when the matcher ran in the
\* tick the timeout expired, and is gone at its end
C7_Witness ==
  /\ first.age = UART_RX_TIMEOUT
  /\ Len(rxLog) = first.rxAt + 1
  /\ uartRxState = "IDLE"
  /\ rxBit = 1
  /\ mRx = <<76>>
  /\ RxEmpty

\* C8: the Transmit Queue is written only in a tick in which the buffered
\* bytes start with the full prefix of a table entry, and what is appended is
\* exactly that entry's reply; for any other buffered bytes the buffer and the
\* write cursor are as the matcher found them.
C8_NoReplyUnlessMatch ==
  [][/\ uartTxBuffer' # uartTxBuffer => Matches(mRx') # {}
     /\ uartTxWrite' # mTxW0' =>
          /\ Matches(mRx') # {}
          /\ LET q == ushioQuery[FirstMatch(mRx')]
             IN  /\ uartTxWrite' = mTxW0' + q.rLength
                 /\ \A k \in 0 .. 15 :
                      uartTxBuffer'[k] = IF mTxW0' <= k /\ k < mTxW0' + q.rLength
                                           THEN q.rData[k - mTxW0' + 1]
                                           ELSE uartTxBuffer[k]]_vars

\* C8 witness: the matcher ran on the unrecognized bytes 50 46 0D and
\* appended nothing
C8_Witness == mRx = <<80, 70, 13>> /\ NothingAppendedNow /\ RxEmpty

\* C9: no byte is committed to the Receive Queue in a tick in which the
\* Transmit Framer is serializing a byte (is not IDLE).
C9_HalfDuplex ==
  [][Len(rxLog') > Len(rxLog) => uartTxState = "IDLE" /\ uartTxState' = "IDLE"]_vars

\* C10: on a match the reply is appended in full, or nothing of it is, and
\* then the unread bytes plus the reply do not fit in the 16-byte queue.
C10_DropOnlyOnOverflow ==
  Matches(mRx) # {} =>
    LET q == ushioQuery[FirstMatch(mRx)]
    IN  \/ AppendedNow(SubSeq(q.rData, 1, q.rLength))
        \/ /\ NothingAppendedNow
           /\ (mTxW0 - uartTxRead) + q.rLength > BUFFER_LENGTH

\* C11 (as stated): a message that consists of the single byte 0x51 makes the
\* emulator queue the reply 51 32 0D: when the Receive Queue lets go of the
\* lone byte, the reply has been appended since the byte began.
C11_SingleByteQuery ==
  (mRx = <<81>> /\ RxEmpty) =>
     SubSeq(appLog, first.appAt + 1, Len(appLog)) = <<81, 50, 13>>

\* C12: under every interleaving of the timer interrupt with the loop, a
\* firing of the interrupt sets the tick flag and changes nothing else; a
\* pass of the loop (every pass changes txTick) happens only with the flag
\* set and at least one firing since the previous pass, and clears the flag;
\* every clearing of the flag is one pass; and the firings that pile up
\* before the flag is consumed are all consumed by that single pass.
C12_TickFlag ==
  [][/\ (fires' > fires) =>
          (timerTriggered' = 1 /\ Cur' = Cur /\ UNCHANGED <<host, obsVars>>)
     /\ (txTick' # txTick) =>
          (timerTriggered # 0 /\ timerTriggered' = 0 /\ fires >= 1 /\ fires' = 0)
     /\ (timerTriggered # 0 /\ timerTriggered' = 0) => (txTick' # txTick)
     /\ (Cur' # Cur) => (txTick' # txTick)]_vars
\* a pass of the loop has consumed several firings at once
C12_Witness == coalesced /\ fires = 0 /\ timerTriggered = 0 /\ txLog # <<>>

\* some table entry is longer than n bytes
LongerEntry(n) == \E i \in 1 .. USHIO_QUERIES : ushioQuery[i].qLength > n

\* C13: in a tick in which the matcher ran (mRx is what it saw), the Receive
\* Queue is cleared (both cursors 0, timeout 0) if a table entry matched, or no
\* entry is longer than the buffered count, or the timeout was 0; otherwise
\* the write cursor, the buffered bytes and the timeout are as they were
\* before the matcher.  In a tick in which it did not run, the cursors and
\* the timeout of the Receive Queue and the Transmit Queue are as they were
\* before the matcher.
C13_ClearOrRetain ==
  /\ mRx # <<>> =>
       IF Matches(mRx) # {} \/ ~LongerEntry(Len(mRx)) \/ mPre.rxTimeout = 0
         THEN RxEmpty /\ rxTimeout = 0
         ELSE /\ uartRxWrite = mPre.rxWrite /\ uartRxRead = mPre.rxRead
              /\ [j \in 1 .. uartRxWrite |-> uartRxBuffer[j - 1]] = mRx
              /\ rxTimeout = mPre.rxTimeout
              /\ uartTxWrite = mTxW0 /\ mPre.txSame
  /\ mRx = <<>> =>
       /\ uartRxWrite = mPre.rxWrite /\ uartRxRead = mPre.rxRead
       /\ rxTimeout = mPre.rxTimeout
       /\ uartTxWrite = mTxW0 /\ mPre.txSame
\* the matcher has kept the prefix 4C 46 of a longer entry with the timeout
\* running
C13_Witness == mRx = <<76, 70>> /\ uartRxWrite = 2 /\ rxTimeout > 0

\* a pass of the loop
Pass == timerTriggered # 0 /\ timerTriggered' = 0

\* C14: a falling edge that is high again one tick later (the framer is in
\* START and samples a high level) is discarded: the framer is IDLE at the end
\* of that tick with no tick delay, no byte is committed, the bytes below the
\* write cursor are untouched and the cursor is unchanged unless the matcher
\* clears the queue in that tick, and the idle timeout is not armed.  A start
\* edge on any later tick is still detected: an IDLE framer has no tick delay
\* and moves to START on every falling edge.
C14_Glitch ==
  [][/\ (Pass /\ uartRxState = "START" /\ rxBit' = 1) =>
          /\ uartRxState' = "IDLE" /\ rxTick' = 0
          /\ rxLog' = rxLog
          /\ uartRxWrite' = uartRxWrite \/ (uartRxWrite' = 0 /\ mRx' # <<>>)
          /\ \A j \in 0 .. uartRxWrite - 1 : uartRxBuffer'[j] = uartRxBuffer[j]
          /\ rxTimeout' <= rxTimeout
     /\ (Pass /\ uartRxState = "IDLE" /\ rxBit = 1 /\ rxBit' = 0) =>
          (rxTick = 0 /\ uartRxState' = "START")]_vars
\* a command sent right after a glitch has been received and answered
C14_Witness ==
  /\ host.shape = "glitch" /\ host.sent = 1 /\ host.bytes = <<>>
  /\ rxLog = <<81, 13>> /\ appLog = <<81, 50, 13>>

\* what forwarding is when only the data bits of the frames count: the bytes
\* committed are the bytes the projector sent, each committed by the end of
\* its eighth data bit; the framer is IDLE, with no tick delay, from the tick
\* in which it samples the stop bit; and a single command has been answered,
\* when its last frame ends, with its listed reply or with nothing
DataBitsDecide ==
  /\ IsPrefix(rxLog, busLog) /\ Len(busLog) <= Len(rxLog) + 1
  /\ uartRxState \in {"PARITY", "STOP", "IDLE"} => rxLog = busLog
  /\ uartRxState = "STOP" => rxTick >= 1
  /\ uartRxState = "IDLE" => rxTick = 0
  /\ (host.sent = 1 /\ host.bytes = <<>>) =>
        appLog = IF busLog \in ListedCmds THEN ListedReply(busLog) ELSE <<>>

\* C15 (as stated): whatever the parity bits and the stop bits of the frames
\* on the line are, the bytes committed, the write cursor and the reply
\* queued are those of the data bits alone, and the framer is IDLE again in
\* the tick in which it samples the stop bit.
C15_FramingIgnored == ~host.stuck => DataBitsDecide

\* C15 (amended): the same, as long as every frame began with a falling edge
\* (the line was high in the tick before its start bit).
C15_FramingIgnoredWithEdge == (~host.stuck /\ ~host.lostEdge) => DataBitsDecide
\* a command with wrong parity bits, and one whose last stop bit is low, has
\* been received and answered
C15_Witness ==
  /\ host.shape \in {"badParity", "badStopLast"} /\ ~host.stuck /\ ~host.lostEdge
  /\ host.sent = 1 /\ host.bytes = <<>>
  /\ rxLog = <<81, 13>> /\ appLog = <<81, 50, 13>> /\ uartRxState = "IDLE"

\* C16: at the end of every tick in which the Transmit Framer is IDLE the
\* scheduling check found the queue drained and reset both cursors (the read
\* cursor is 0 and the write cursor was 0 before the matcher); an IDLE framer
\* with unread bytes is in START at the end of the next pass; and no cursor
\* goes back while unread bytes remain.
C16_TxScheduling ==
  [][/\ (uartTxState' = "IDLE") => (uartTxRead' = 0 /\ mTxW0' = 0)
     /\ (Pass /\ uartTxState = "IDLE" /\ uartTxRead < uartTxWrite) =>
          uartTxState' = "START"
     /\ (uartTxRead' < uartTxRead \/ uartTxWrite' < uartTxWrite) =>
          uartTxRead = uartTxWrite]_vars
\* after an earlier reply has been sent and the cursors reset, a reply is
\* appended while the framer is IDLE
C16_Witness ==
  /\ uartTxState = "IDLE" /\ uartTxRead = 0 /\ uartTxWrite = 3
  /\ Len(txLog) = 3 /\ Len(appLog) = 6

\* C17: at every moment the bytes appended to the Transmit Queue so far are
\* the bytes serialized so far followed by the unread bytes of the queue (none
\* skipped, repeated, overwritten or discarded), and, the timer firing on and
\* on, bytes that are pending lead to a state in which every appended byte
\* has been serialized.
C17_AllSerialized ==
  /\ [](appLog = txLog \o TxUnread)
  /\ (Len(txLog) < Len(appLog)) ~> (txLog = appLog)
\* two replies have been appended and both serialized, in order
C17_Witness ==
  /\ Len(appLog) = 6 /\ txLog = appLog /\ uartTxState = "IDLE"
  /\ SubSeq(appLog, 1, 3) # SubSeq(appLog, 4, 6)

\* C18: for every waveform of the line (glitches, wrong parity and stop
\* bits, pauses that end as the timeout expires, a line stuck low), the timer
\* firing on and on: a Receive Queue that is not empty leads to an empty one,
\* and a Receive Framer that has left IDLE leads to IDLE.
C18_NoLingering ==
  /\ (uartRxWrite > 0) ~> (uartRxWrite = 0)
  /\ (uartRxState # "IDLE") ~> (uartRxState = "IDLE")
\* the line stuck low after the byte 51: the framer has taken the low line
\* for a byte 00 and is IDLE again, and the two bytes have been dropped when
\* the timeout ran out
C18_Witness ==
  /\ host.stuck /\ rxLog = <<81, 0>> /\ mRx = <<81, 0>> /\ mPre.rxTimeout = 0
  /\ RxEmpty /\ uartRxState = "IDLE"

\* the last n bytes of the sequence a
LastBytes(a, n) == SubSeq(a, Len(a) - n + 1, Len(a))

\* C19: at most 3 bytes are buffered, the read cursor stays 0 and the write
\* cursor never wraps; the buffered bytes are the last bytes committed,
\* intact; a commit moves the write cursor up by one and stores the byte at
\* the old cursor; and the write cursor goes back only to 0 and only in a tick
\* in which the matcher has inspected all the buffered bytes.
C19_RxQueueBounded ==
  [][/\ uartRxWrite' <= 3 /\ uartRxRead' = 0
     /\ Len(rxLog') >= uartRxWrite'
     /\ [j \in 1 .. uartRxWrite' |-> uartRxBuffer'[j - 1]] = LastBytes(rxLog', uartRxWrite')
     /\ (Len(rxLog') > Len(rxLog)) =>
          (uartRxWrite' = uartRxWrite + 1 /\ uartRxBuffer'[uartRxWrite] = rxLog'[Len(rxLog')])
     /\ (uartRxWrite' < uartRxWrite) =>
          /\ uartRxWrite' = 0
          /\ mRx' = [j \in 1 .. uartRxWrite |-> uartRxBuffer[j - 1]]
     /\ (uartRxState' = "IDLE" /\ mRx' = <<>>) => uartRxWrite' = 0]_vars
\* three bytes are buffered after three earlier bytes have been inspected
\* and dropped
C19_Witness == uartRxWrite = 3 /\ Len(rxLog) = 6 /\ uartRxState = "PARITY"

\* C20: in every reachable state 0 <= read cursor <= write cursor <= 14 for
\* the Transmit Queue, the write cursor before the matcher is within the same
\* range, and the buffer has its 16 cells 0 .. 15, so every reply byte was
\* written to a cell below 15.
C20_TxCursors ==
  /\ 0 <= uartTxRead /\ uartTxRead <= uartTxWrite
  /\ uartTxWrite <= UARTTXMASK - 1
  /\ mTxW0 <= uartTxWrite
  /\ DOMAIN uartTxBuffer = 0 .. BUFFER_LENGTH - 1
\* four replies are queued, the first has been sent and later ones are unread
C20_Witness == uartTxWrite = 12 /\ uartTxRead >= 3 /\ uartTxRead < uartTxWrite

=============================================================================
